---- MODULE Spec2Model ----
(***************************************************************************)
(* A model of src/src/colour_gradient.rs: the ColourGradient store (an     *)
(* ordered Vec of RGBAColour stops and an f32 domain [min, max]) and its   *)
(* operations new, add_colour, set_min, set_max and get_colour.            *)
(*                                                                         *)
(* Numbers.  An f32 is modelled by an integer number of ticks, one tick    *)
(* being 1/Unit with Unit a power of two, so every modelled value is a     *)
(* dyadic rational that f32 holds exactly.  The quotients and products of  *)
(* get_colour and interpolate are kept as exact fractions num/den.  The    *)
(* domain bounds are drawn from MinVals and MaxVals, chosen so that every  *)
(* positive max - min is a power of two: on these inputs each f32          *)
(* operation of the code (the subtraction, the division by range, the      *)
(* multiplication by len - 1, floor, the products with a u8 difference,    *)
(* round) has an exactly representable result, so the exact fractions are  *)
(* the values the f32 code computes.  NaN and the infinities are not       *)
(* modelled.                                                               *)
(*                                                                         *)
(* Casts.  `as usize` and `as u8` from a float saturate (Rust >= 1.45):    *)
(* a negative value becomes 0, a too large one the type's maximum.         *)
(*                                                                         *)
(* Panics.  A failed assert! or an out-of-bounds index panics.  get_colour *)
(* takes &self, so the store is intact after the unwinding; the model lets *)
(* the caller go on using it (std::panic::catch_unwind), which includes    *)
(* every run that stops at the panic as a prefix.                          *)
(***************************************************************************)
EXTENDS Integers, Sequences, FiniteSets

\* ------------------------------------------------------------- bounds

\* Largest number of stops a run adds.
MaxStops == 3

\* One tick is 1/2^UnitBits.
UnitBits == 3

Unit == 2 ^ UnitBits

\* Largest value of a u8 channel.
U8_MAX == 255

\* ------------------------------------------------------------- values

\* RGBAColour::new
RGBAColour(r, g, b, a) == [r |-> r, g |-> g, b |-> b, a |-> a]

Black == RGBAColour(0, 0, 0, 255)
White == RGBAColour(255, 255, 255, 255)
Mid == RGBAColour(100, 150, 200, 255)

\* The colours the runs add (the tests' black and white, and one in between).
Palette == {Black, White, Mid}

\* The arguments of set_min and of set_max, in ticks: every max - min > 0
\* over these is Unit/2, Unit or 2*Unit.
MinVals == {-Unit, 0, Unit \div 2}
MaxVals == {0, Unit}

\* The arguments of get_colour, in ticks: every tick from below the least
\* bound to above the greatest.
Values == (-Unit - 1) .. (Unit + 1)

\* ------------------------------------------------------------- f32 helpers

\* f32::floor of the fraction num/den, den > 0.
floor(num, den) == num \div den

\* f32::round of the fraction num/den, den > 0: to the nearest integer, a
\* half away from zero.
round(num, den) ==
  IF num >= 0 THEN (2 * num + den) \div (2 * den)
  ELSE -((2 * (-num) + den) \div (2 * den))

\* `x as usize` of an integral float: saturating at 0 (the upper end,
\* usize::MAX, is out of the modelled range).
as_usize(x) == IF x < 0 THEN 0 ELSE x

\* `x as u8` of an integral float: saturating at both ends.
as_u8(x) == IF x < 0 THEN 0 ELSE IF x > U8_MAX THEN U8_MAX ELSE x

\* ------------------------------------------------------------- get_colour

\* The float `.round()` yields inside interpolate, before the cast to u8;
\* ratio is the fraction ratio.num / ratio.den.
interpolate_round(start, finish, ratio) ==
  round((finish - start) * ratio.num + start * ratio.den, ratio.den)

\* ColourGradient::interpolate
interpolate(start, finish, ratio) ==
  as_u8(interpolate_round(start, finish, ratio))

\* A slip of assert_len: one stop is let through.
assert_len_nonempty(cs) == Len(cs) > 0

\* assert!(self.colours.len() > 1)
assert_len(cs) == Len(cs) > 1

\* assert!(self.max >= self.min)
assert_range(mn, mx) == mx >= mn

\* A slip of above_max: the strict comparison.
above_max_strict(value, mx) == value > mx

\* if value >= self.max
above_max(value, mx) == value >= mx

\* A slip of below_min: the strict comparison.
below_min_strict(value, mn) == value < mn

\* if value <= self.min
below_min(value, mn) == value <= mn

\* self.colours.last().unwrap().clone()
last_colour(cs) == cs[Len(cs)]

\* self.colours.first().unwrap().clone()
first_colour(cs) == cs[1]

\* scaled_value = value / range * (len - 1), as the fraction num/den with
\* den = range = max - min.
scaled_value(cs, mn, mx, value) ==
  [num |-> value * (Len(cs) - 1), den |-> mx - mn]

\* idx_value = scaled_value.floor() as usize
idx_value(cs, mn, mx, value) ==
  LET s == scaled_value(cs, mn, mx, value)
  IN as_usize(floor(s.num, s.den))

\* ratio = scaled_value - idx_value as f32
ratio(cs, mn, mx, value) ==
  LET s == scaled_value(cs, mn, mx, value)
  IN [num |-> s.num - idx_value(cs, mn, mx, value) * s.den, den |-> s.den]

NoRatio == [num |-> 0, den |-> 1]

\* What a call of get_colour does: path is where it ended, panicked whether
\* it panicked, ret the colour returned (<<c>>) or none (<<>>), idx and
\* ratio the band lookup's values (0 and 0/1 when it is not reached).
Outcome(path, panicked, ret, idx, rt) ==
  [path |-> path, panicked |-> panicked, ret |-> ret, idx |-> idx, ratio |-> rt]

NoCall == Outcome("none", FALSE, <<>>, 0, NoRatio)

\* ColourGradient::get_colour; indices of cs are 1-based, idx is 0-based.
get_colour(cs, mn, mx, value) ==
  IF ~assert_len(cs) THEN Outcome("assert_len", TRUE, <<>>, 0, NoRatio)
  ELSE IF ~assert_range(mn, mx) THEN Outcome("assert_range", TRUE, <<>>, 0, NoRatio)
  ELSE IF above_max(value, mx) THEN Outcome("clamp_max", FALSE, <<last_colour(cs)>>, 0, NoRatio)
  ELSE IF below_min(value, mn) THEN Outcome("clamp_min", FALSE, <<first_colour(cs)>>, 0, NoRatio)
  ELSE
    LET idx == idx_value(cs, mn, mx, value)
        rt == ratio(cs, mn, mx, value)
    IN
      \* self.colours[idx_value], self.colours[idx_value + 1]
      IF idx >= Len(cs) \/ idx + 1 >= Len(cs)
      THEN Outcome("band", TRUE, <<>>, idx, rt)
      ELSE
        LET first == cs[idx + 1]
            second == cs[idx + 2]
        IN Outcome("band", FALSE,
                   <<[r |-> interpolate(first.r, second.r, rt),
                      g |-> interpolate(first.g, second.g, rt),
                      b |-> interpolate(first.b, second.b, rt),
                      a |-> interpolate(first.a, second.a, rt)]>>,
                   idx, rt)

\* ------------------------------------------------------------- state

VARIABLES
  colours,  \* self.colours
  min,      \* self.min, in ticks
  max,      \* self.max, in ticks
  last,     \* the latest call: its name, argument, outcome and the store before it
  hist      \* history: the arguments of the mutating calls so far

vars == <<colours, min, max, last, hist>>

Store == [colours |-> colours, min |-> min, max |-> max]

Call(op, arg, out) == [op |-> op, arg |-> arg, out |-> out, pre |-> Store]

\* ColourGradient::new
Init ==
  /\ colours = <<>>
  /\ min = 0
  /\ max = Unit
  /\ last = [op |-> "new", arg |-> <<>>, out |-> NoCall,
             pre |-> [colours |-> <<>>, min |-> 0, max |-> Unit]]
  /\ hist = [adds |-> <<>>, min |-> 0, max |-> Unit]

\* A slip of push: the colour is put in front.
push_front(cs, colour) == <<colour>> \o cs

\* self.colours.push(colour)
push(cs, colour) == Append(cs, colour)

\* ColourGradient::add_colour
AddColour(colour) ==
  /\ Len(colours) < MaxStops
  /\ colours' = push(colours, colour)
  /\ last' = Call("add_colour", <<colour>>, NoCall)
  /\ hist' = [hist EXCEPT !.adds = Append(@, colour)]
  /\ UNCHANGED <<min, max>>

\* ColourGradient::set_max
SetMax(v) ==
  /\ max' = v
  /\ last' = Call("set_max", <<v>>, NoCall)
  /\ hist' = [hist EXCEPT !.max = v]
  /\ UNCHANGED <<colours, min>>

\* ColourGradient::set_min
SetMin(v) ==
  /\ min' = v
  /\ last' = Call("set_min", <<v>>, NoCall)
  /\ hist' = [hist EXCEPT !.min = v]
  /\ UNCHANGED <<colours, max>>

\* A slip of GetColour: a get_colour(&mut self) that repairs a reversed
\* domain instead of leaving the store alone.
GetColourRepairing(value) ==
  /\ last' = Call("get_colour", <<value>>, get_colour(colours, min, max, value))
  /\ min' = IF max < min THEN max ELSE min
  /\ UNCHANGED <<colours, max, hist>>

\* A call of get_colour(value) on &self.
GetColour(value) ==
  /\ last' = Call("get_colour", <<value>>, get_colour(colours, min, max, value))
  /\ UNCHANGED <<colours, min, max, hist>>

Next ==
  \/ \E c \in Palette : AddColour(c)
  \/ \E v \in MaxVals : SetMax(v)
  \/ \E v \in MinVals : SetMin(v)
  \/ \E v \in Values : GetColour(v)

Spec == Init /\ [][Next]_vars

\* ------------------------------------------------------------- tests

\* tests::get_colour: the assertions of the repository's test, on the
\* stores the test builds (domain [0, 1]).
TestsGetColour ==
  LET two == <<Black, White>>
      three == <<Black, White, Black>>
      grey(x) == RGBAColour(x, x, x, 255)
      got(cs, v) == get_colour(cs, 0, Unit, v).ret
  IN /\ got(two, 0) = <<Black>>
     /\ got(two, Unit) = <<White>>
     /\ got(two, Unit \div 2) = <<grey(128)>>
     /\ got(three, 0) = <<Black>>
     /\ got(three, Unit) = <<Black>>
     /\ got(three, Unit \div 2) = <<White>>
     /\ got(three, Unit \div 8) = <<grey(64)>>
     /\ got(three, Unit \div 4) = <<grey(128)>>
     /\ got(three, 3 * (Unit \div 4)) = <<grey(128)>>

\* ------------------------------------------------------------- claims

\* The documented contract of get_colour, on the current store.
Contract == Len(colours) >= 2 /\ max >= min

\* The latest call is get_colour(v) on a store within the contract.
QueriedInContract ==
  /\ last.op = "get_colour"
  /\ Len(last.pre.colours) >= 2
  /\ last.pre.max >= last.pre.min

\* The latest call is get_colour(v) with min < v < max, within the contract.
QueriedInBand ==
  /\ QueriedInContract
  /\ last.pre.min < last.arg[1]
  /\ last.arg[1] < last.pre.max

\* c1 <= c2 in every channel.
ChannelsLeq(c1, c2) == c1.r <= c2.r /\ c1.g <= c2.g /\ c1.b <= c2.b /\ c1.a <= c2.a

\* C1: within the contract, a get_colour(v) with min < v < max never indexes
\* outside the colour sequence: it does not panic, and 0 <= idx and
\* idx + 1 <= stopCount - 1.
C1_IndexInBounds ==
  QueriedInBand =>
    /\ ~last.out.panicked
    /\ 0 <= last.out.idx
    /\ last.out.idx + 1 <= Len(last.pre.colours) - 1

\* C2: get_colour panics and returns no colour for every value when the
\* store holds 0 or 1 stops or has max < min; it passes both checks when the
\* store holds at least 2 stops and max >= min; a failed call leaves
\* colours, min and max as they were.
C2_PreconditionsFailFatally ==
  /\ \A v \in Values :
       LET out == get_colour(colours, min, max, v)
       IN /\ (Len(colours) <= 1 \/ max < min) => (out.panicked /\ out.ret = <<>>)
          /\ (Len(colours) >= 2 /\ max >= min) =>
               out.path \notin {"assert_len", "assert_range"}
  /\ (last.op = "get_colour" /\ last.out.panicked) => Store = last.pre

\* C2's case: a store of at least 2 stops whose domain was reversed by the
\* setters, and a get_colour that failed on it.
C2_Witness ==
  /\ last.op = "get_colour"
  /\ last.out.panicked
  /\ last.out.path = "assert_range"
  /\ Len(colours) >= 2
  /\ max < min

\* C3: within the contract, get_colour(v) with v >= max returns exactly the
\* last stop's colour.
C3_UpperClamp ==
  Contract =>
    \A v \in Values :
      v >= max =>
        LET out == get_colour(colours, min, max, v)
        IN ~out.panicked /\ out.ret = <<colours[Len(colours)]>>

\* C3's case: a query above max answered with the last stop, which differs
\* from the first.
C3_Witness ==
  /\ QueriedInContract
  /\ last.arg[1] > max
  /\ colours[1] # colours[Len(colours)]
  /\ last.out.ret = <<colours[Len(colours)]>>

\* C4 as stated: within the contract (min = max included), get_colour(v)
\* with v <= min returns exactly the first stop's colour.
C4_LowerClampAsStated ==
  Contract =>
    \A v \in Values :
      v <= min =>
        LET out == get_colour(colours, min, max, v)
        IN ~out.panicked /\ out.ret = <<colours[1]>>

\* C4 amended: within the contract, get_colour(v) with v <= min returns
\* exactly the first stop's colour when v < max, and the last stop's colour
\* when v = min = max (the upper clamp is tested first).
C4_LowerClamp ==
  Contract =>
    \A v \in Values :
      v <= min =>
        LET out == get_colour(colours, min, max, v)
        IN /\ ~out.panicked
           /\ out.ret = IF v < max THEN <<colours[1]>> ELSE <<colours[Len(colours)]>>

\* C4's case: a query at or below min, below max, answered with the first
\* stop, which differs from the last.
C4_Witness ==
  /\ QueriedInContract
  /\ last.arg[1] <= min
  /\ last.arg[1] < max
  /\ colours[1] # colours[Len(colours)]
  /\ last.out.ret = <<colours[1]>>

\* The channel the claim C5 gives: round-half-away-from-zero of
\* (finish - start) * ratio + start, ratio = rnum / den.
C5_Channel(start, finish, rnum, den) ==
  round((finish - start) * rnum + start * den, den)

\* C5: within the contract, get_colour(v) with min < v < max returns the
\* colour whose channels are round((finish - start) * ratio + start), with
\* scaled = v / (max - min) * (n - 1), idx = floor(scaled),
\* ratio = scaled - idx, start and finish the channels of stops idx, idx + 1.
C5_BandFormula ==
  QueriedInBand =>
    LET cs == last.pre.colours
        den == last.pre.max - last.pre.min
        num == last.arg[1] * (Len(cs) - 1)
        idx == num \div den
        rnum == num - idx * den
    IN /\ ~last.out.panicked
       /\ idx \in 0 .. (Len(cs) - 2)
       /\ last.out.ret =
            <<[r |-> C5_Channel(cs[idx + 1].r, cs[idx + 2].r, rnum, den),
               g |-> C5_Channel(cs[idx + 1].g, cs[idx + 2].g, rnum, den),
               b |-> C5_Channel(cs[idx + 1].b, cs[idx + 2].b, rnum, den),
               a |-> C5_Channel(cs[idx + 1].a, cs[idx + 2].a, rnum, den)]>>

\* C6: with n >= 2 stops and min < max, get_colour at the k-th equal share
\* of the domain, min + k * (max - min) / (n - 1), returns exactly stop k's
\* colour, for every k in 0..n-1 (the shares that fall on a tick).
C6_EqualShares ==
  (QueriedInContract /\ last.pre.min < last.pre.max) =>
    \A k \in 0 .. (Len(last.pre.colours) - 1) :
      (last.arg[1] * (Len(last.pre.colours) - 1)
         = last.pre.min * (Len(last.pre.colours) - 1)
             + k * (last.pre.max - last.pre.min))
        => (~last.out.panicked /\ last.out.ret = <<last.pre.colours[k + 1]>>)

\* C7: for a 2-stop gradient whose first stop is <= its second in every
\* channel, within the contract, for all v1 <= v2 in [min, max] on which
\* get_colour returns, every channel of get_colour(v1) is <= that of
\* get_colour(v2).
C7_Monotonic ==
  (Len(colours) = 2 /\ max >= min /\ ChannelsLeq(colours[1], colours[2])) =>
    \A v1, v2 \in Values :
      (min <= v1 /\ v1 <= v2 /\ v2 <= max) =>
        LET o1 == get_colour(colours, min, max, v1)
            o2 == get_colour(colours, min, max, v2)
        IN (~o1.panicked /\ ~o2.panicked) => ChannelsLeq(o1.ret[1], o2.ret[1])

\* C8: a call of get_colour, returning or failing, leaves colours, min and
\* max unchanged, so every query gives after it what it gave before it, and
\* the same query on the same store gives the same outcome again.
C8_Pure ==
  last.op = "get_colour" =>
    /\ Store = last.pre
    /\ \A v \in Values :
         get_colour(colours, min, max, v)
           = get_colour(last.pre.colours, last.pre.min, last.pre.max, v)
    /\ get_colour(colours, min, max, last.arg[1]) = last.out

\* C8's case: a query that failed on a reversed domain of a populated store.
C8_Witness ==
  /\ last.op = "get_colour"
  /\ Len(colours) >= 2
  /\ max < min
  /\ last.out.panicked

\* C9: after new() and any add_colour, set_min, set_max calls, colours is
\* the add_colour arguments in call order, min the latest set_min argument
\* (0.0 if none) and max the latest set_max argument (1.0 if none); each
\* add_colour appends one colour and changes no bound; set_min and set_max
\* do not fail and change nothing but their own bound.
C9_MutatorsRecord ==
  /\ colours = hist.adds
  /\ min = hist.min
  /\ max = hist.max
  /\ last.op = "add_colour" =>
       /\ colours = last.pre.colours \o last.arg
       /\ min = last.pre.min /\ max = last.pre.max
  /\ last.op = "set_min" =>
       /\ min = last.arg[1] /\ ~last.out.panicked
       /\ colours = last.pre.colours /\ max = last.pre.max
  /\ last.op = "set_max" =>
       /\ max = last.arg[1] /\ ~last.out.panicked
       /\ colours = last.pre.colours /\ min = last.pre.min

\* C9's case: both bounds were set away from their defaults, stops were
\* added, and the latest add_colour put a different colour behind the first.
C9_Witness ==
  /\ last.op = "add_colour"
  /\ Len(colours) = MaxStops
  /\ colours[1] # colours[Len(colours)]
  /\ min # 0
  /\ max # Unit

\* C10: whenever get_colour returns for a value with min < value < max, the
\* ratio passed to interpolate lies in [0, 1), each channel of the result
\* lies between the same channel of stops idx and idx + 1, and no channel
\* comes from saturating an out-of-range intermediate.
C10_RatioInUnitInterval ==
  (QueriedInBand /\ ~last.out.panicked) =>
    LET rt == last.out.ratio
        first == last.pre.colours[last.out.idx + 1]
        second == last.pre.colours[last.out.idx + 2]
        got == last.out.ret[1]
        between(x, a, b) == (a <= x /\ x <= b) \/ (b <= x /\ x <= a)
        unsaturated(a, b) ==
          LET x == interpolate_round(a, b, rt) IN 0 <= x /\ x <= U8_MAX
    IN /\ 0 <= rt.num
       /\ rt.num < rt.den
       /\ between(got.r, first.r, second.r) /\ unsaturated(first.r, second.r)
       /\ between(got.g, first.g, second.g) /\ unsaturated(first.g, second.g)
       /\ between(got.b, first.b, second.b) /\ unsaturated(first.b, second.b)
       /\ between(got.a, first.a, second.a) /\ unsaturated(first.a, second.a)

====
